---- MODULE Spec2Model ----
(***************************************************************************)
(* A model of naive_parser_combinators/__init__.py.                        *)
(*                                                                         *)
(* A parser is a function (tokens, index) -> frozenset of (value, index).  *)
(* The closures the combinators return are modelled as terms (tagged       *)
(* tuples); Run invokes such a term on (tokens, index) the way the lambda  *)
(* in the source computes its frozenset.                                   *)
(*                                                                         *)
(* Python values are tagged with their type, because Python's == (which    *)
(* decides frozenset membership) tells 5 from "5" and None from both:      *)
(*   None -> <<"None">>   5 -> <<"int", 5>>   "5" -> <<"str", "5">>        *)
(*   (a, b) -> <<"tuple", a, b>>                                           *)
(* Python indexes sequences from 0 and TLA+ from 1: the source's           *)
(* tokens[index] is tokens[index + 1] here.                                *)
(***************************************************************************)
EXTENDS Integers, Sequences, FiniteSets, TLC

VARIABLES tokens, index, call, parser, result, pc, pending, parts, invoked

vars == <<tokens, index, call, parser, result, pc, pending, parts, invoked>>

-----------------------------------------------------------------------------
(* Bounds and inputs *)

MaxLen == 3

None == <<"None">>

IntV(n) == <<"int", n>>

StrV(s) == <<"str", s>>

TupleV(a, b) == <<"tuple", a, b>>

Alphabet == {StrV("5"), StrV("+")}

SumTokens == <<StrV("1"), StrV("+"), StrV("2")>>

RECURSIVE SeqsUpTo(_)
SeqsUpTo(n) ==
    IF n = 0 THEN {<<>>}
    ELSE LET shorter == SeqsUpTo(n - 1)
         IN  shorter \cup {Append(s, tok) : s \in {q \in shorter : Len(q) = n - 1},
                                            tok \in Alphabet}

TokenSeqs == SeqsUpTo(MaxLen) \cup {SumTokens}

-----------------------------------------------------------------------------
(* The caller's predicates and functions (arguments of consume, apply,     *)
(* transform and combine).  They are not code of the library; each is      *)
(* modelled on the domain given by InDomain / InDomain2.                   *)

Preds == {"isDigit", "isPlus", "anyToken"}

DigitValue == [d \in {"1", "2", "5"} |-> CASE d = "1" -> 1 [] d = "2" -> 2 [] d = "5" -> 5]

Pred(pred, token) ==
    CASE pred = "isDigit"  -> token[1] = "str" /\ token[2] \in DOMAIN DigitValue
      [] pred = "isPlus"   -> token = StrV("+")
      [] pred = "anyToken" -> TRUE

id == <<"id">>

const(value) == <<"const", value>>

toInt == <<"toInt">>

toString == <<"toString">>

dup == <<"dup">>

after(g, f) == <<"after", g, f>>

unpack(func) == <<"unpack", func>>

second == <<"second">>

add == <<"add">>

pair == <<"pair">>

InDomain2(func, a, b) ==
    CASE func = second -> TRUE
      [] func = pair   -> TRUE
      [] func = add    -> a[1] = "int" /\ b[1] = "int"

Call2(func, a, b) ==
    CASE func = second -> b
      [] func = pair   -> TupleV(a, b)
      [] func = add    -> IntV(a[2] + b[2])

RECURSIVE Call(_, _)
Call(func, value) ==
    CASE func[1] = "id"       -> value
      [] func[1] = "const"    -> func[2]
      [] func[1] = "dup"      -> TupleV(value, value)
      [] func[1] = "toInt"    -> IF value[1] = "int" THEN value
                                 ELSE IntV(DigitValue[value[2]])
      [] func[1] = "toString" -> (CASE value[1] = "str"  -> value
                                    [] value[1] = "int"  -> StrV(ToString(value[2]))
                                    [] value[1] = "None" -> StrV("None"))
      [] func[1] = "after"    -> Call(func[2], Call(func[3], value))
      [] func[1] = "unpack"   -> Call2(func[2], value[2], value[3])

RECURSIVE InDomain(_, _)
InDomain(func, value) ==
    CASE func[1] \in {"id", "const", "dup"} -> TRUE
      [] func[1] = "toInt"    -> \/ value[1] = "int"
                                 \/ value[1] = "str" /\ value[2] \in DOMAIN DigitValue
      [] func[1] = "toString" -> value[1] \in {"str", "int", "None"}
      [] func[1] = "after"    -> /\ InDomain(func[3], value)
                                 /\ InDomain(func[2], Call(func[3], value))
      [] func[1] = "unpack"   -> /\ value[1] = "tuple"
                                 /\ InDomain2(func[2], value[2], value[3])

-----------------------------------------------------------------------------
(* The combinators: each returns the term of the closure it builds. *)

fail == <<"fail">>

noop == <<"noop">>

consume(pred) == <<"consume", pred>>

compose(parser1, parser2) == <<"compose", parser1, parser2>>

either(parser1, parser2) == <<"either", parser1, parser2>>

apply(func, p) == <<"apply", func, p>>

emit(value) == apply(const(value), noop)

transform(pred, func) == apply(func, consume(pred))

(* Variant: the two parsers are composed in the opposite order. *)
combine_Swapped(parser1, parser2, func) == apply(unpack(func), compose(parser2, parser1))

combine(parser1, parser2, func) == apply(unpack(func), compose(parser1, parser2))

-----------------------------------------------------------------------------
(* Invoking a parser: the bodies of fail and noop and of the lambdas. *)

RECURSIVE Run(_, _, _)

RunFail(toks, i) == {}

RunNoop(toks, i) == {<<None, i>>}

(* Variant: the token is output but the index is not advanced. *)
RunConsume_NoAdvance(pred, toks, i) ==
    IF i < Len(toks) /\ Pred(pred, toks[i + 1])
    THEN {<<toks[i + 1], i>>}
    ELSE {}

RunConsume(pred, toks, i) ==
    IF i < Len(toks) /\ Pred(pred, toks[i + 1])
    THEN {<<toks[i + 1], i + 1>>}
    ELSE {}

(* Variant: parser2 begins at the start of the input, not where parser1 ended. *)
RunCompose_Restart(parser1, parser2, toks, i) ==
    UNION { { <<TupleV(r1[1], r2[1]), r2[2]>> : r2 \in Run(parser2, toks, 0) }
            : r1 \in Run(parser1, toks, i) }

(* Variant: only one of parser1's results is continued (first match). *)
RunCompose_FirstMatch(parser1, parser2, toks, i) ==
    LET results1 == Run(parser1, toks, i)
    IN  IF results1 = {} THEN {}
        ELSE LET r1 == CHOOSE r \in results1 : TRUE
             IN  { <<TupleV(r1[1], r2[1]), r2[2]>> : r2 \in Run(parser2, toks, r1[2]) }

(* Variant: the output pair is (value2, value1). *)
RunCompose_Swapped(parser1, parser2, toks, i) ==
    UNION { { <<TupleV(r2[1], r1[1]), r2[2]>> : r2 \in Run(parser2, toks, r1[2]) }
            : r1 \in Run(parser1, toks, i) }

RunCompose(parser1, parser2, toks, i) ==
    UNION { { <<TupleV(r1[1], r2[1]), r2[2]>> : r2 \in Run(parser2, toks, r1[2]) }
            : r1 \in Run(parser1, toks, i) }

(* Variant: results are keyed by end index, one result kept per index. *)
RunEither_OnePerIndex(parser1, parser2, toks, i) ==
    LET all == Run(parser1, toks, i) \cup Run(parser2, toks, i)
    IN  { CHOOSE r \in all : r[2] = e : e \in {r[2] : r \in all} }

RunEither(parser1, parser2, toks, i) ==
    Run(parser1, toks, i) \cup Run(parser2, toks, i)

(* Variant: func is not applied. *)
RunApply_IgnoreFunc(func, p, toks, i) ==
    { <<r[1], r[2]>> : r \in Run(p, toks, i) }

(* Variant: the index reported is the one the parser was started at. *)
RunApply_StartIndex(func, p, toks, i) ==
    { <<Call(func, r[1]), i>> : r \in Run(p, toks, i) }

RunApply(func, p, toks, i) ==
    { <<Call(func, r[1]), r[2]>> : r \in Run(p, toks, i) }

Run(p, toks, i) ==
    CASE p[1] = "fail"    -> RunFail(toks, i)
      [] p[1] = "noop"    -> RunNoop(toks, i)
      [] p[1] = "consume" -> RunConsume(p[2], toks, i)
      [] p[1] = "compose" -> RunCompose(p[2], p[3], toks, i)
      [] p[1] = "either"  -> RunEither(p[2], p[3], toks, i)
      [] p[1] = "apply"   -> RunApply(p[2], p[3], toks, i)

(* No call of a caller's function made while p runs on (toks, i) raises. *)
RECURSIVE Defined(_, _, _)
Defined(p, toks, i) ==
    CASE p[1] \in {"fail", "noop", "consume"} -> TRUE
      [] p[1] = "compose" -> /\ Defined(p[2], toks, i)
                             /\ \A r1 \in Run(p[2], toks, i) : Defined(p[3], toks, r1[2])
      [] p[1] = "either"  -> Defined(p[2], toks, i) /\ Defined(p[3], toks, i)
      [] p[1] = "apply"   -> /\ Defined(p[3], toks, i)
                             /\ \A r \in Run(p[3], toks, i) : InDomain(p[2], r[1])

-----------------------------------------------------------------------------
(* The grammars the operations are applied to. *)

digit == transform("isDigit", toInt)

plus == consume("isPlus")

EmitValues == {None, IntV(0)}

Atoms ==
    {fail, noop, plus, digit, consume("isDigit"), consume("anyToken"),
     emit(IntV(0)), transform("isDigit", toString)}

Composites ==
    {either(noop, consume("anyToken")),
     either(digit, transform("isDigit", toString)),
     either(consume("isDigit"), transform("anyToken", id)),
     compose(consume("anyToken"), either(noop, consume("anyToken"))),
     compose(plus, digit),
     combine(plus, digit, second)}

Pool == Atoms \cup Composites

Funcs == {id, const(None), dup, toString, toInt}

Funcs2 == {second, pair, add}

-----------------------------------------------------------------------------
(* Specification Spec: one operation is built and invoked on (tokens, index) *)

Init ==
    /\ tokens \in TokenSeqs
    /\ index \in 0..Len(tokens)
    /\ call = <<>>
    /\ parser = fail
    /\ result = {}
    /\ pc = "idle"
    /\ pending = {}
    /\ parts = {}
    /\ invoked = <<>>

(* The closure p that the operation c returned is invoked on (tokens, index) *)
Invoke(c, p) ==
    /\ Defined(p, tokens, index)
    /\ call' = c
    /\ parser' = p
    /\ result' = Run(p, tokens, index)
    /\ pc' = "returned"
    /\ UNCHANGED <<tokens, index, pending, parts, invoked>>

Fail ==
    /\ pc = "idle"
    /\ Invoke(<<"fail">>, fail)

Noop ==
    /\ pc = "idle"
    /\ Invoke(<<"noop">>, noop)

Consume ==
    /\ pc = "idle"
    /\ \E pred \in Preds : Invoke(<<"consume", pred>>, consume(pred))

Compose ==
    /\ pc = "idle"
    /\ \E parser1 \in Pool, parser2 \in Pool :
          Invoke(<<"compose", parser1, parser2>>, compose(parser1, parser2))

Either ==
    /\ pc = "idle"
    /\ \E parser1 \in Pool, parser2 \in Pool :
          Invoke(<<"either", parser1, parser2>>, either(parser1, parser2))

Apply ==
    /\ pc = "idle"
    /\ \E func \in Funcs, p \in Pool :
          Invoke(<<"apply", func, p>>, apply(func, p))

Emit ==
    /\ pc = "idle"
    /\ \E value \in EmitValues : Invoke(<<"emit", value>>, emit(value))

Transform ==
    /\ pc = "idle"
    /\ \E pred \in Preds, func \in Funcs :
          Invoke(<<"transform", pred, func>>, transform(pred, func))

Combine ==
    /\ pc = "idle"
    /\ \E parser1 \in Pool, parser2 \in Pool, func \in Funcs2 :
          Invoke(<<"combine", parser1, parser2, func>>, combine(parser1, parser2, func))

Next ==
    \/ Fail
    \/ Noop
    \/ Consume
    \/ Compose
    \/ Either
    \/ Apply
    \/ Emit
    \/ Transform
    \/ Combine

Spec == Init /\ [][Next]_vars

TypeOK ==
    /\ pc \in {"idle", "compose", "either_left", "either_right", "returned"}
    /\ index \in 0..Len(tokens)
    /\ \A r \in result : Len(r) = 2 /\ r[2] \in 0..Len(tokens)

-----------------------------------------------------------------------------
(* Specification SpecSteps: the lambdas of compose and either, one           *)
(* sub-parser invocation per step.  invoked records the invocations made     *)
(* by the lambda, <<1, at>> for parser1 and <<2, at>> for parser2, in order. *)

(* Variant: parser2 is invoked at the start index before parser1's results    *)
(* are looked at.                                                            *)
ComposeCallParser1_Eager ==
    /\ pc = "idle"
    /\ \E parser1 \in Pool, parser2 \in Pool :
          /\ Defined(compose(parser1, parser2), tokens, index)
          /\ call' = <<"compose", parser1, parser2>>
          /\ parser' = compose(parser1, parser2)
          /\ pending' = Run(parser1, tokens, index)
    /\ invoked' = <<<<1, index>>, <<2, index>>>>
    /\ parts' = {}
    /\ pc' = "compose"
    /\ UNCHANGED <<tokens, index, result>>

(* compose, line 54: the generator expression evaluates its outermost        *)
(* iterable, parser1(tokens, index), when it is created.                     *)
ComposeCallParser1 ==
    /\ pc = "idle"
    /\ \E parser1 \in Pool, parser2 \in Pool :
          /\ Defined(compose(parser1, parser2), tokens, index)
          /\ call' = <<"compose", parser1, parser2>>
          /\ parser' = compose(parser1, parser2)
          /\ pending' = Run(parser1, tokens, index)
    /\ invoked' = <<<<1, index>>>>
    /\ parts' = {}
    /\ pc' = "compose"
    /\ UNCHANGED <<tokens, index, result>>

(* compose, lines 48-53: one iteration of the generator; the frozenset is    *)
(* iterated in an order the language leaves open.                            *)
ComposeCallParser2 ==
    /\ pc = "compose"
    /\ \E r1 \in pending :
          /\ pending' = pending \ {r1}
          /\ parts' = parts \cup
                { { <<TupleV(r1[1], r2[1]), r2[2]>> : r2 \in Run(call[3], tokens, r1[2]) } }
          /\ invoked' = Append(invoked, <<2, r1[2]>>)
    /\ UNCHANGED <<tokens, index, call, parser, result, pc>>

(* compose, line 46: frozenset().union over the sets the generator produced *)
ComposeUnion ==
    /\ pc = "compose"
    /\ pending = {}
    /\ result' = UNION parts
    /\ pc' = "returned"
    /\ UNCHANGED <<tokens, index, call, parser, pending, parts, invoked>>

(* either, line 65: the left operand of | *)
EitherCallParser1 ==
    /\ pc = "idle"
    /\ \E parser1 \in Pool, parser2 \in Pool :
          /\ Defined(either(parser1, parser2), tokens, index)
          /\ call' = <<"either", parser1, parser2>>
          /\ parser' = either(parser1, parser2)
          /\ parts' = {Run(parser1, tokens, index)}
    /\ invoked' = <<<<1, index>>>>
    /\ pc' = "either_left"
    /\ UNCHANGED <<tokens, index, result, pending>>

(* Variant: parser2 is skipped when parser1 succeeded (left-biased choice). *)
EitherCallParser2_ShortCircuit ==
    /\ pc = "either_left"
    /\ IF parts = {{}}
       THEN /\ parts' = parts \cup {Run(call[3], tokens, index)}
            /\ invoked' = Append(invoked, <<2, index>>)
       ELSE UNCHANGED <<parts, invoked>>
    /\ pc' = "either_right"
    /\ UNCHANGED <<tokens, index, call, parser, result, pending>>

(* either, line 65: the right operand of | *)
EitherCallParser2 ==
    /\ pc = "either_left"
    /\ parts' = parts \cup {Run(call[3], tokens, index)}
    /\ invoked' = Append(invoked, <<2, index>>)
    /\ pc' = "either_right"
    /\ UNCHANGED <<tokens, index, call, parser, result, pending>>

(* either, line 65: the | itself *)
EitherUnion ==
    /\ pc = "either_right"
    /\ result' = UNION parts
    /\ pc' = "returned"
    /\ UNCHANGED <<tokens, index, call, parser, pending, parts, invoked>>

NextSteps ==
    \/ ComposeCallParser1
    \/ ComposeCallParser2
    \/ ComposeUnion
    \/ EitherCallParser1
    \/ EitherCallParser2
    \/ EitherUnion

SpecSteps == Init /\ [][NextSteps]_vars

(* The stepwise lambdas return what Run returns. *)
StepsAgreeWithRun ==
    pc = "returned" => result = Run(parser, tokens, index)

-----------------------------------------------------------------------------
(* Properties *)

Returned(op) == pc = "returned" /\ call[1] = op

EndIndices(results) == {r[2] : r \in results}

(* C1: consume(pred)(tokens, index) is empty when index = len(tokens) or     *)
(* pred(tokens[index]) is false, and is otherwise exactly                    *)
(* {(tokens[index], index + 1)}.                                             *)
C1_ConsumeBoundary ==
    Returned("consume") =>
        /\ index = Len(tokens) => result = {}
        /\ index < Len(tokens) /\ ~Pred(call[2], tokens[index + 1]) => result = {}
        /\ index < Len(tokens) /\ Pred(call[2], tokens[index + 1])
              => result = {<<tokens[index + 1], index + 1>>}

C1_Witness ==
    /\ Returned("consume")
    /\ index > 0
    /\ index < Len(tokens)
    /\ result = {<<tokens[index + 1], index + 1>>}

(* C2: every (value, end) a parser built from the nine operations returns    *)
(* for a start index in 0..len(tokens) has index <= end <= len(tokens).      *)
C2_EndWithinBounds ==
    pc = "returned" => \A r \in result : index <= r[2] /\ r[2] <= Len(tokens)

C2_Witness ==
    /\ Returned("combine")
    /\ index > 0
    /\ \E r \in result : r[2] = index + 2 /\ r[2] = Len(tokens)
    /\ \E r \in result : r[2] = index

(* C3: compose(parser1, parser2)(tokens, index) holds ((value1, value2),     *)
(* index2) for every (value1, index1) of parser1 at index and every          *)
(* (value2, index2) of parser2 at index1, and nothing else; it is empty when *)
(* every such invocation of parser2 fails.                                   *)
C3_ComposeCartesian ==
    Returned("compose") =>
        LET results1 == Run(call[2], tokens, index)
        IN  /\ \A r1 \in results1 : \A r2 \in Run(call[3], tokens, r1[2]) :
                  <<TupleV(r1[1], r2[1]), r2[2]>> \in result
            /\ \A x \in result :
                  /\ x[1][1] = "tuple"
                  /\ \E r1 \in results1 :
                        /\ r1[1] = x[1][2]
                        /\ <<x[1][3], x[2]>> \in Run(call[3], tokens, r1[2])
            /\ (\A r1 \in results1 : Run(call[3], tokens, r1[2]) = {}) => result = {}

C3_Witness ==
    /\ Returned("compose")
    /\ Cardinality(EndIndices(Run(call[2], tokens, index))) >= 2
    /\ Cardinality(result) >= 4
    /\ Cardinality(EndIndices(result)) >= 3

(* C4: while compose(parser1, parser2) runs, parser2 is invoked only after   *)
(* parser1 was, and only at end indices of parser1's results; when parser1   *)
(* returns the empty set, parser2 is never invoked and the result is empty.  *)
C4_ComposeInvokesParser2AfterParser1 ==
    (pc \in {"compose", "returned"} /\ call[1] = "compose") =>
        LET results1 == Run(call[2], tokens, index)
        IN  /\ \A k \in 1..Len(invoked) :
                  invoked[k][1] = 2 =>
                      /\ k > 1
                      /\ invoked[1] = <<1, index>>
                      /\ invoked[k][2] \in EndIndices(results1)
            /\ results1 = {} => \A k \in 1..Len(invoked) : invoked[k][1] # 2
            /\ (results1 = {} /\ pc = "returned") => result = {}

C4_Witness ==
    /\ Returned("compose")
    /\ Run(call[2], tokens, index) = {}
    /\ Run(call[3], tokens, index) # {}
    /\ invoked = <<<<1, index>>>>

(* C5: either(parser1, parser2) invokes parser1 and parser2, both at the     *)
(* start index, and returns the union of their results; either(fail, P) and  *)
(* either(P, fail) return what P returns, and either(P2, P1) returns what    *)
(* either(P1, P2) returns.                                                   *)
C5_EitherUnion ==
    Returned("either") =>
        LET results1 == Run(call[2], tokens, index)
            results2 == Run(call[3], tokens, index)
        IN  /\ invoked = <<<<1, index>>, <<2, index>>>>
            /\ \A r \in results1 \cup results2 : r \in result
            /\ \A r \in result : r \in results1 \/ r \in results2
            /\ call[2] = fail => result = results2
            /\ call[3] = fail => result = results1
            /\ result = Run(either(call[3], call[2]), tokens, index)

C5_Witness ==
    /\ Returned("either")
    /\ invoked = <<<<1, index>>, <<2, index>>>>
    /\ Run(call[2], tokens, index) # {}
    /\ Run(call[3], tokens, index) \ Run(call[2], tokens, index) # {}
    /\ Run(call[2], tokens, index) \ Run(call[3], tokens, index) # {}

(* C6: apply(f, P)(tokens, index) is {(f(value), end) : (value, end) in      *)
(* P(tokens, index)}: each end is the one P reported, the result is empty    *)
(* exactly when P's is, and it has no more members than P's.                 *)
C6_ApplyMapsValues ==
    Returned("apply") =>
        LET results == Run(call[3], tokens, index)
        IN  /\ \A r \in results : <<Call(call[2], r[1]), r[2]>> \in result
            /\ \A x \in result : \E r \in results :
                  x[1] = Call(call[2], r[1]) /\ x[2] = r[2]
            /\ (result = {}) <=> (results = {})
            /\ Cardinality(result) <= Cardinality(results)

C6_Witness ==
    /\ Returned("apply")
    /\ call[2] = const(None)
    /\ Cardinality(result) < Cardinality(Run(call[3], tokens, index))
    /\ \E r \in result : r[2] > index

(* C7: apply(id, P) returns what P returns, and apply(g, apply(f, P))        *)
(* returns what apply(g-after-f, P) returns.                                 *)
C7_ApplyFunctor ==
    Returned("apply") =>
        /\ call[2] = id => result = Run(call[3], tokens, index)
        /\ call[3][1] = "apply" =>
              result = Run(apply(after(call[2], call[3][2]), call[3][3]), tokens, index)

C7_Witness ==
    /\ Returned("apply")
    /\ call[2] = toString
    /\ call[3][1] = "apply"
    /\ call[3][2] = toInt
    /\ \E r \in result : r[2] > index

(* C8: compose(noop, P) returns {((None, value), end)} and compose(P, noop)  *)
(* returns {((value, None), end)} for the (value, end) of P: the end indices *)
(* and the number of members are those of P's result.                        *)
C8_ComposeNoop ==
    Returned("compose") =>
        /\ call[2] = noop =>
              LET results == Run(call[3], tokens, index)
              IN  /\ result = { <<TupleV(None, r[1]), r[2]>> : r \in results }
                  /\ EndIndices(result) = EndIndices(results)
                  /\ Cardinality(result) = Cardinality(results)
        /\ call[3] = noop =>
              LET results == Run(call[2], tokens, index)
              IN  /\ result = { <<TupleV(r[1], None), r[2]>> : r \in results }
                  /\ EndIndices(result) = EndIndices(results)
                  /\ Cardinality(result) = Cardinality(results)

C8_Witness ==
    /\ Returned("compose")
    /\ call[3] = noop
    /\ call[2] # noop
    /\ Cardinality(result) >= 2
    /\ \E r \in result : r[2] > index

(* C9: emit(value) returns {(value, index)}; transform(pred, f) returns      *)
(* {(f(tokens[index]), index + 1)} when consume(pred) succeeds and the empty *)
(* set otherwise; combine(parser1, parser2, f) returns {(f(value1, value2),  *)
(* index2)} for the ((value1, value2), index2) of compose(parser1, parser2). *)
(* On ['1', '+', '2'] at index 0, combine(digit, combine(plus, digit,        *)
(* second), add) returns exactly {(3, 3)}.                                   *)
C9_DerivedCombinators ==
    /\ Returned("emit") => result = {<<call[2], index>>}
    /\ Returned("transform") =>
          result = IF Run(consume(call[2]), tokens, index) # {}
                   THEN {<<Call(call[3], tokens[index + 1]), index + 1>>}
                   ELSE {}
    /\ Returned("combine") =>
          result = { <<Call2(call[4], x[1][2], x[1][3]), x[2]>> :
                        x \in Run(compose(call[2], call[3]), tokens, index) }
    /\ ( /\ Returned("combine")
         /\ call = <<"combine", digit, combine(plus, digit, second), add>>
         /\ tokens = SumTokens
         /\ index = 0 ) => result = {<<IntV(3), 3>>}

C9_Witness ==
    /\ Returned("combine")
    /\ call = <<"combine", digit, combine(plus, digit, second), add>>
    /\ tokens = SumTokens
    /\ index = 0
    /\ result = {<<IntV(3), 3>>}

(* C10: results are one member exactly when both value and end index are     *)
(* equal; results whose values differ stay separate members even at the same *)
(* end index.  either(transform(isDigit, toInt), transform(isDigit,          *)
(* toString)) on ['5'] at index 0 returns the two members (5, 1), ("5", 1).  *)
C10_Deduplication ==
    Returned("either") =>
        LET results1 == Run(call[2], tokens, index)
            results2 == Run(call[3], tokens, index)
        IN  /\ Cardinality(result) = Cardinality(results1) + Cardinality(results2)
                                       - Cardinality(results1 \cap results2)
            /\ \A r1 \in results1, r2 \in results2 :
                  (r1[1] # r2[1] \/ r1[2] # r2[2]) => {r1, r2} \subseteq result /\ r1 # r2
            /\ ( /\ call[2] = transform("isDigit", toInt)
                 /\ call[3] = transform("isDigit", toString)
                 /\ tokens = <<StrV("5")>>
                 /\ index = 0 )
                  => /\ result = {<<IntV(5), 1>>, <<StrV("5"), 1>>}
                     /\ Cardinality(result) = 2

C10_Witness ==
    /\ Returned("either")
    /\ call[2] = transform("isDigit", toInt)
    /\ call[3] = transform("isDigit", toString)
    /\ tokens = <<StrV("5")>>
    /\ index = 0
    /\ Cardinality(result) = 2

====
